---- MODULE Spec2Model ----
(***************************************************************************)
(* GLES2HardwareBuffer (OGRE GLES2 render system): the buffer object        *)
(* lifecycle and the lock/map protocol, over a model of the GL driver's     *)
(* buffer objects and of the state cache manager's buffer bindings.         *)
(***************************************************************************)
EXTENDS Integers, Sequences, FiniteSets, TLC

\* ------------------------------------------------------------------ bounds
\* Largest mSizeInBytes a buffer is created with.
MaxSize == 2
\* ------------------------------------------------------------------ domains
Res == {"A", "B"}
Targets == {"GL_ARRAY_BUFFER", "GL_ELEMENT_ARRAY_BUFFER"}
CopyTargets == {"GL_COPY_READ_BUFFER", "GL_COPY_WRITE_BUFFER"}
AllTargets == Targets \cup CopyTargets
\* Buffer names the driver hands out (0 is never a name): as many as buffers.
Handles == 1..Cardinality(Res)
\* The byte values buffers are written with.
Byte == {0, 1}
\* A byte of a data store whose contents the driver leaves undefined: a value
\* that is no byte value.
Undef == Cardinality(Byte)
Sizes == 1..MaxSize
\* HardwareBuffer::Usage is a bit set; a usage is the set of its bits.
UsageBits == {"HBU_STATIC", "HBU_DYNAMIC", "HBU_WRITE_ONLY", "HBU_DISCARDABLE"}
Usages == {{"HBU_STATIC"}, {"HBU_DYNAMIC", "HBU_WRITE_ONLY"}}
LockOptions == {"HBL_NORMAL", "HBL_DISCARD", "HBL_READ_ONLY", "HBL_NO_OVERWRITE"}

VARIABLES
    caps,             \* the build and the extensions of the render system
    cacheAlive,       \* mRenderSystem->_getStateCacheManager() is non-null
    activeBufferMap,  \* the state cache manager: target -> buffer it records as bound
    glBound,          \* the driver: binding point -> buffer name bound (0: none)
    glObj,            \* the driver: buffer name -> buffer object
    buf,              \* the GLES2HardwareBuffer objects
    lastOp,           \* the last call made on a GLES2HardwareBuffer and its outcome
    calls             \* the cache and driver calls that call issued, in order

vars == <<caps, cacheAlive, activeBufferMap, glBound, glObj, buf, lastOp, calls>>

\* ------------------------------------------------------------------ helpers
NoObj == [exists |-> FALSE, data |-> <<>>, mapped |-> FALSE]
NoBuf == [alive |-> FALSE, mTarget |-> "GL_ARRAY_BUFFER", mSizeInBytes |-> 0,
          mUsage |-> {}, mBufferId |-> 0, locked |-> FALSE]

RECURSIVE SeqsUpTo(_, _)
SeqsUpTo(S, n) ==
    IF n = 0 THEN {<<>>}
    ELSE LET prev == SeqsUpTo(S, n - 1)
         IN prev \cup {Append(s, x) : s \in {p \in prev : Len(p) = n - 1}, x \in S}

SeqsOfLen(S, n) == {s \in SeqsUpTo(S, n) : Len(s) = n}

UndefData(n) == [i \in 1..n |-> Undef]

\* bytes [offset, offset+length) of a data store
Slice(data, offset, length) == [i \in 1..length |-> data[offset + i]]

\* data with src written at [offset, offset+Len(src))
Patch(data, offset, src) ==
    [i \in 1..Len(data) |->
        IF i > offset /\ i <= offset + Len(src) THEN src[i - offset] ELSE data[i]]

Call(fn, tgt, h, n, acc) == [fn |-> fn, tgt |-> tgt, h |-> h, n |-> n, acc |-> acc]

\* The world an operation runs against, threaded through its calls.
World == [bound |-> glBound, obj |-> glObj, cache |-> activeBufferMap, calls |-> <<>>]

Log(w, c) == [w EXCEPT !.calls = Append(@, c)]

\* ------------------------------------------------------------------ the GL driver
\* glBindBuffer(target, buffer)
GlBindBuffer(w, target, h) ==
    Log([w EXCEPT !.bound[target] = h], Call("glBindBuffer", target, h, 0, {}))

\* glBufferData(target, size, data, usage): a new data store for the buffer bound
\* to target (data = <<>> stands for NULL: contents undefined); an existing
\* mapping of the buffer is dropped. With no buffer bound it is an error and a no-op.
GlBufferData(w, target, size, data, hint) ==
    LET h == w.bound[target]
        w1 == Log(w, Call("glBufferData", target, h, size, {hint}))
    IN IF h = 0 \/ ~w.obj[h].exists THEN w1
       ELSE [w1 EXCEPT !.obj[h] =
                [exists |-> TRUE,
                 data |-> IF data = <<>> THEN UndefData(size) ELSE Slice(data, 0, size),
                 mapped |-> FALSE]]

\* glBufferSubData(target, offset, size, data)
GlBufferSubData(w, target, offset, data) ==
    LET h == w.bound[target]
        w1 == Log(w, Call("glBufferSubData", target, h, Len(data), {}))
    IN IF h = 0 \/ ~w.obj[h].exists THEN w1
       ELSE IF offset + Len(data) > Len(w.obj[h].data) \/ w.obj[h].mapped THEN w1
       ELSE [w1 EXCEPT !.obj[h].data = Patch(@, offset, data)]

\* The access bits glMapBufferRange accepts.
ValidAccess(acc) ==
    /\ ("READ" \in acc \/ "WRITE" \in acc)
    /\ ("READ" \in acc => "INVALIDATE_RANGE" \notin acc)
    /\ ("FLUSH_EXPLICIT" \in acc => "WRITE" \in acc)

\* Whether glMapBufferRange(target, offset, length, access) returns a mapping;
\* oom is the driver running out of address space.
MapRangeOk(w, target, offset, length, acc, oom) ==
    LET h == w.bound[target]
    IN /\ ~oom
       /\ h # 0
       /\ w.obj[h].exists
       /\ ~w.obj[h].mapped
       /\ length > 0
       /\ offset + length <= Len(w.obj[h].data)
       /\ ValidAccess(acc)

\* glMapBufferRange(target, offset, length, access)
GlMapBufferRange(w, target, offset, length, acc, oom) ==
    LET h == w.bound[target]
        w1 == Log(w, Call("glMapBufferRange", target, h, length, acc))
    IN IF ~MapRangeOk(w, target, offset, length, acc, oom) THEN w1
       ELSE [w1 EXCEPT !.obj[h].mapped = TRUE,
                       !.obj[h].data =
                           IF "INVALIDATE_RANGE" \in acc
                           THEN Patch(@, offset, UndefData(length)) ELSE @]

\* Whether glMapBufferOES(target, access) returns a mapping: OES_mapbuffer
\* accepts GL_WRITE_ONLY_OES only.
MapOesOk(w, target, acc, oom) ==
    LET h == w.bound[target]
    IN /\ ~oom
       /\ h # 0
       /\ w.obj[h].exists
       /\ ~w.obj[h].mapped
       /\ acc = {"WRITE_ONLY_OES"}

\* glMapBufferOES(target, access)
GlMapBufferOES(w, target, acc, oom) ==
    LET h == w.bound[target]
        w1 == Log(w, Call("glMapBufferOES", target, h, 0, acc))
    IN IF ~MapOesOk(w, target, acc, oom) THEN w1
       ELSE [w1 EXCEPT !.obj[h].mapped = TRUE]

\* glFlushMappedBufferRange(target, offset, length): no effect on the model's state
GlFlushMappedBufferRange(w, target, length) ==
    Log(w, Call("glFlushMappedBufferRange", target, w.bound[target], length, {}))

\* The value glUnmapBufferOES(target) returns: GL_FALSE when nothing is mapped
\* or when the data store was corrupted while mapped.
UnmapResult(w, target, corrupt) ==
    LET h == w.bound[target]
    IN h # 0 /\ w.obj[h].exists /\ w.obj[h].mapped /\ ~corrupt

\* glUnmapBufferOES(target)
GlUnmapBuffer(w, target, corrupt) ==
    LET h == w.bound[target]
        w1 == Log(w, Call("glUnmapBuffer", target, h, 0, {}))
    IN IF h = 0 \/ ~w.obj[h].exists \/ ~w.obj[h].mapped THEN w1
       ELSE [w1 EXCEPT !.obj[h].mapped = FALSE,
                       !.obj[h].data = IF corrupt THEN UndefData(Len(@)) ELSE @]

\* glDeleteBuffers(1, &buffer): the object goes and every binding of it reverts to 0
GlDeleteBuffers(w, h) ==
    LET w1 == Log(w, Call("glDeleteBuffers", "", h, 0, {}))
    IN IF h = 0 THEN w1
       ELSE [w1 EXCEPT !.obj[h] = NoObj,
                       !.bound = [t \in AllTargets |-> IF w.bound[t] = h THEN 0 ELSE w.bound[t]]]

\* glCopyBufferSubData(GL_COPY_READ_BUFFER, GL_COPY_WRITE_BUFFER, ro, wo, size)
GlCopyBufferSubData(w, srcOffset, dstOffset, length) ==
    LET r == w.bound["GL_COPY_READ_BUFFER"]
        d == w.bound["GL_COPY_WRITE_BUFFER"]
        w1 == Log(w, Call("glCopyBufferSubData", "GL_COPY_WRITE_BUFFER", d, length, {}))
    IN IF r = 0 \/ d = 0 THEN w1
       ELSE IF ~w.obj[r].exists \/ ~w.obj[d].exists THEN w1
       ELSE IF w.obj[r].mapped \/ w.obj[d].mapped THEN w1
       ELSE IF srcOffset + length > Len(w.obj[r].data)
               \/ dstOffset + length > Len(w.obj[d].data) THEN w1
       ELSE IF r = d /\ srcOffset < dstOffset + length /\ dstOffset < srcOffset + length
            THEN w1
       ELSE [w1 EXCEPT !.obj[d].data =
                Patch(@, dstOffset, Slice(w.obj[r].data, srcOffset, length))]

\* ------------------------------------------------------------------ the state cache manager
\* GLES2StateCacheManager::bindGLBuffer(target, buffer): binds unless the cache
\* records buffer as already bound to target.
bindGLBuffer(w, target, h) ==
    LET w1 == Log(w, Call("bindGLBuffer", target, h, 0, {}))
    IN IF w.cache[target] = h THEN w1
       ELSE GlBindBuffer([w1 EXCEPT !.cache[target] = h], target, h)

\* GLES2StateCacheManager::deleteGLBuffer(target, buffer): evicts the cache's
\* entry for the buffer on target and deletes the driver object.
deleteGLBuffer(w, target, h) ==
    LET w1 == Log(w, Call("deleteGLBuffer", target, h, 0, {}))
        w2 == IF w1.cache[target] = h THEN [w1 EXCEPT !.cache[target] = 0] ELSE w1
    IN GlDeleteBuffers(w2, h)

\* ------------------------------------------------------------------ GLES2HardwareBuffer
\* The outcome of a call, as lastOp records it: the buffer and its name, the
\* error raised, the arguments, whether the call came right after the buffer's
\* creation (fresh), whether the driver refused readData's mapping for lack of
\* memory (oom), whether the call got a mapping (gotMap), whether readData
\* executed its memcpy into the destination (copied) and what that left there.
Op(op, r, h, err, offset, length, flag, src) ==
    [op |-> op, res |-> r, h |-> h, err |-> err, offset |-> offset, length |-> length,
     flag |-> flag, src |-> src, fresh |-> FALSE, oom |-> FALSE, gotMap |-> FALSE,
     copied |-> FALSE, out |-> <<>>]

\* The process is running: no call has crashed it.
Running == lastOp.err # "Crash"

Commit(w) ==
    /\ glBound' = w.bound
    /\ glObj' = w.obj
    /\ activeBufferMap' = w.cache
    /\ calls' = w.calls

\* glGenBuffers(1, &mBufferId): name is the name the driver returns; 0 is none.
GlGenBuffers(w, name) ==
    LET w1 == Log(w, Call("glGenBuffers", "", name, 0, {}))
    IN IF name = 0 THEN w1
       ELSE [w1 EXCEPT !.obj[name] = [exists |-> TRUE, data |-> <<>>, mapped |-> FALSE]]

\* getGLUsage with the static bit tested ahead of the discardable bit.
getGLUsage_StaticFirst(usage) ==
    IF "HBU_STATIC" \in usage THEN "GL_STATIC_DRAW"
    ELSE IF "HBU_DISCARDABLE" \in usage THEN "GL_STREAM_DRAW"
    ELSE "GL_DYNAMIC_DRAW"

\* GLES2HardwareBuffer::getGLUsage
getGLUsage(usage) ==
    IF "HBU_DISCARDABLE" \in usage THEN "GL_STREAM_DRAW"
    ELSE IF "HBU_STATIC" \in usage THEN "GL_STATIC_DRAW"
    ELSE "GL_DYNAMIC_DRAW"

\* !OGRE_NO_GLES3_SUPPORT || checkExtension("GL_EXT_map_buffer_range")
hasMapBufferRange == caps.gles3 \/ caps.extMapRange

\* The #if OGRE_NO_GLES3_SUPPORT == 1 branch of lockImpl is compiled in and
\* checkExtension("GL_OES_mapbuffer") holds.
hasLegacyMap == ~caps.gles3 /\ caps.extOes

\* createBuffer with the new name bound by glBindBuffer directly, not through
\* the state cache manager.
createBuffer_RawBind(r, target, size, usage, name) ==
    /\ Running
    /\ ~buf[r].alive
    /\ name \in {0} \cup {h \in Handles : ~glObj[h].exists}
    /\ LET w0 == GlGenBuffers(World, name)
           w1 == GlBindBuffer(w0, target, name)
           w2 == GlBufferData(w1, target, size, <<>>, getGLUsage(usage))
       IN IF name = 0
          THEN /\ Commit(w0)
               /\ buf' = buf
               /\ lastOp' = Op("create", r, 0, "AllocationError", 0, size, "", <<>>)
          ELSE /\ Commit(w2)
               /\ buf' = [buf EXCEPT ![r] =
                             [alive |-> TRUE, mTarget |-> target, mSizeInBytes |-> size,
                              mUsage |-> usage, mBufferId |-> name, locked |-> FALSE]]
               /\ lastOp' = Op("create", r, name, "none", 0, size, "", <<>>)
    /\ UNCHANGED <<caps, cacheAlive>>

\* The constructor and createBuffer. The glLabelObjectEXT call under RSC_DEBUG
\* changes nothing the model holds and is left out.
createBuffer(r, target, size, usage, name) ==
    /\ Running
    /\ ~buf[r].alive
    /\ name \in {0} \cup {h \in Handles : ~glObj[h].exists}
    /\ LET w0 == GlGenBuffers(World, name)
           w1 == bindGLBuffer(w0, target, name)
           w2 == GlBufferData(w1, target, size, <<>>, getGLUsage(usage))
       IN IF name = 0
          THEN /\ Commit(w0)
               /\ buf' = buf
               /\ lastOp' = Op("create", r, 0, "AllocationError", 0, size, "", <<>>)
          ELSE IF ~cacheAlive
          THEN /\ Commit(w0)
               /\ buf' = buf
               /\ lastOp' = Op("create", r, name, "Crash", 0, size, "", <<>>)
          ELSE /\ Commit(w2)
               /\ buf' = [buf EXCEPT ![r] =
                             [alive |-> TRUE, mTarget |-> target, mSizeInBytes |-> size,
                              mUsage |-> usage, mBufferId |-> name, locked |-> FALSE]]
               /\ lastOp' = Op("create", r, name, "none", 0, size, "", <<>>)
    /\ UNCHANGED <<caps, cacheAlive>>

\* destroyWorld with the driver object deleted directly, not through the cache.
destroyWorld_RawDelete(w, b) ==
    IF cacheAlive THEN GlDeleteBuffers(w, b.mBufferId) ELSE w

\* The body of destroyBuffer.
destroyWorld(w, b) ==
    IF cacheAlive THEN deleteGLBuffer(w, b.mTarget, b.mBufferId) ELSE w

\* The destructor and destroyBuffer.
destroyBuffer(r) ==
    /\ Running
    /\ buf[r].alive
    /\ LET b == buf[r]
           w == destroyWorld(World, b)
       IN /\ Commit(w)
          /\ buf' = [buf EXCEPT ![r] = NoBuf]
          /\ lastOp' = Op("destroy", r, b.mBufferId, "none", 0, 0, "", <<>>)
    /\ UNCHANGED <<caps, cacheAlive>>

\* The render system drops its state cache manager.
TearDownCache ==
    /\ Running
    /\ cacheAlive
    /\ cacheAlive' = FALSE
    /\ activeBufferMap' = [t \in Targets |-> 0]
    /\ lastOp' = Op("teardown", "A", 0, "none", 0, 0, "", <<>>)
    /\ calls' = <<>>
    /\ UNCHANGED <<caps, glBound, glObj, buf>>

\* The access bits lockImpl asks glMapBufferRangeEXT for.
rangeAccess(usage, options) ==
    IF "HBU_WRITE_ONLY" \in usage
    THEN {"WRITE", "FLUSH_EXPLICIT"}
         \cup (IF options \in {"HBL_DISCARD", "HBL_NO_OVERWRITE"}
               THEN {"INVALIDATE_RANGE"} ELSE {})
    ELSE IF options = "HBL_READ_ONLY" THEN {"READ"}
    ELSE {"READ", "WRITE"}

\* The access lockImpl passes to glMapBufferOES (0 unless the usage is write-only).
legacyAccess(usage) ==
    IF "HBU_WRITE_ONLY" \in usage THEN {"WRITE_ONLY_OES"} ELSE {}

\* The legacy branch of lockImpl up to its map call.
legacyDiscard(w, b, options) ==
    IF options \in {"HBL_DISCARD", "HBL_NO_OVERWRITE"}
    THEN GlBufferData(w, b.mTarget, b.mSizeInBytes, <<>>, getGLUsage(b.mUsage))
    ELSE w

\* lockWorld with the discard of the legacy branch done ahead of the capability
\* tests.
lockWorld_DiscardFirst(w1, b, offset, length, options, oom) ==
    IF hasMapBufferRange
    THEN GlMapBufferRange(w1, b.mTarget, offset, length,
                          rangeAccess(b.mUsage, options), oom)
    ELSE IF hasLegacyMap
    THEN GlMapBufferOES(legacyDiscard(w1, b, options), b.mTarget,
                        legacyAccess(b.mUsage), oom)
    ELSE legacyDiscard(w1, b, options)

\* lockImpl after its bind: the mapping branch taken.
lockWorld(w1, b, offset, length, options, oom) ==
    IF hasMapBufferRange
    THEN GlMapBufferRange(w1, b.mTarget, offset, length,
                          rangeAccess(b.mUsage, options), oom)
    ELSE IF hasLegacyMap
    THEN GlMapBufferOES(legacyDiscard(w1, b, options), b.mTarget,
                        legacyAccess(b.mUsage), oom)
    ELSE w1

\* Whether pBuffer is non-null after that branch.
lockGotMap(w1, b, offset, length, options, oom) ==
    IF hasMapBufferRange
    THEN MapRangeOk(w1, b.mTarget, offset, length, rangeAccess(b.mUsage, options), oom)
    ELSE IF hasLegacyMap
    THEN MapOesOk(legacyDiscard(w1, b, options), b.mTarget, legacyAccess(b.mUsage), oom)
    ELSE FALSE

\* GLES2HardwareBuffer::lockImpl
lockImpl(r, offset, length, options, oom) ==
    /\ Running
    /\ buf[r].alive
    /\ ~buf[r].locked
    /\ LET b == buf[r]
           w1 == bindGLBuffer(World, b.mTarget, b.mBufferId)
           w2 == lockWorld(w1, b, offset, length, options, oom)
           pBuffer == lockGotMap(w1, b, offset, length, options, oom)
           o == Op("lock", r, b.mBufferId, "none", offset, length, options, <<>>)
       IN IF ~cacheAlive
          THEN /\ Commit(World)
               /\ buf' = buf
               /\ lastOp' = [o EXCEPT !.err = "Crash"]
          ELSE /\ Commit(w2)
               /\ buf' = [buf EXCEPT ![r].locked = pBuffer]
               /\ lastOp' = [o EXCEPT !.err = IF pBuffer THEN "none" ELSE "MappingError",
                                      !.gotMap = pBuffer]
    /\ UNCHANGED <<caps, cacheAlive>>

\* unlockImpl flushing whenever ranges can be mapped, whatever the usage.
unlockImpl_FlushAnyUsage(r, lockSize, corrupt) ==
    /\ Running
    /\ buf[r].alive
    /\ buf[r].locked
    /\ LET b == buf[r]
           w1 == bindGLBuffer(World, b.mTarget, b.mBufferId)
           w2 == IF hasMapBufferRange
                 THEN GlFlushMappedBufferRange(w1, b.mTarget, lockSize)
                 ELSE w1
           unmaps == hasMapBufferRange \/ caps.extOes
           w3 == IF unmaps THEN GlUnmapBuffer(w2, b.mTarget, corrupt) ELSE w2
           mapped == UnmapResult(w2, b.mTarget, corrupt)
           o == Op("unlock", r, b.mBufferId, "none", 0, lockSize, "", <<>>)
       IN IF ~cacheAlive
          THEN /\ Commit(World)
               /\ buf' = buf
               /\ lastOp' = [o EXCEPT !.err = "Crash"]
          ELSE /\ Commit(w3)
               /\ buf' = [buf EXCEPT ![r].locked = FALSE]
               /\ lastOp' = [o EXCEPT !.err = IF unmaps /\ ~mapped
                                               THEN "CorruptionError" ELSE "none"]
    /\ UNCHANGED <<caps, cacheAlive>>

\* GLES2HardwareBuffer::unlockImpl
unlockImpl(r, lockSize, corrupt) ==
    /\ Running
    /\ buf[r].alive
    /\ buf[r].locked
    /\ LET b == buf[r]
           w1 == bindGLBuffer(World, b.mTarget, b.mBufferId)
           w2 == IF "HBU_WRITE_ONLY" \in b.mUsage /\ hasMapBufferRange
                 THEN GlFlushMappedBufferRange(w1, b.mTarget, lockSize)
                 ELSE w1
           unmaps == hasMapBufferRange \/ caps.extOes
           w3 == IF unmaps THEN GlUnmapBuffer(w2, b.mTarget, corrupt) ELSE w2
           mapped == UnmapResult(w2, b.mTarget, corrupt)
           o == Op("unlock", r, b.mBufferId, "none", 0, lockSize, "", <<>>)
       IN IF ~cacheAlive
          THEN /\ Commit(World)
               /\ buf' = buf
               /\ lastOp' = [o EXCEPT !.err = "Crash"]
          ELSE /\ Commit(w3)
               /\ buf' = [buf EXCEPT ![r].locked = FALSE]
               /\ lastOp' = [o EXCEPT !.err = IF unmaps /\ ~mapped
                                               THEN "CorruptionError" ELSE "none"]
    /\ UNCHANGED <<caps, cacheAlive>>

\* readSupported with unlockImpl's test, which GL_OES_mapbuffer satisfies too.
readSupported_AnyMap == hasMapBufferRange \/ caps.extOes

\* The capability test of readData.
readSupported == hasMapBufferRange

\* GLES2HardwareBuffer::readData. memcpy from a null srcData is undefined
\* behaviour: ub is what the build makes of it, a copy of garbage or a crash.
readData(r, offset, length, oom, corrupt, ub) ==
    /\ Running
    /\ buf[r].alive
    /\ ~buf[r].locked
    /\ offset + length <= buf[r].mSizeInBytes
    /\ LET b == buf[r]
           h == glBound[b.mTarget]
           srcData == MapRangeOk(World, b.mTarget, offset, length, {"READ"}, oom)
           w1 == GlMapBufferRange(World, b.mTarget, offset, length, {"READ"}, oom)
           w2 == GlUnmapBuffer(w1, b.mTarget, corrupt)
           mapped == UnmapResult(w1, b.mTarget, corrupt)
           o == [Op("readData", r, b.mBufferId, "none", offset, length, "", <<>>)
                    EXCEPT !.oom = oom]
       IN IF ~readSupported
          THEN /\ Commit(World)
               /\ lastOp' = [o EXCEPT !.err = "UnsupportedOperationError"]
          ELSE IF ~srcData /\ ub = "segfault"
          THEN /\ Commit(w1)
               /\ lastOp' = [o EXCEPT !.err = "Crash", !.copied = TRUE]
          ELSE /\ Commit(w2)
               /\ lastOp' = [o EXCEPT !.err = IF mapped THEN "none" ELSE "CorruptionError",
                                      !.gotMap = srcData,
                                      !.copied = TRUE,
                                      !.out = IF srcData
                                              THEN Slice(glObj[h].data, offset, length)
                                              ELSE UndefData(length)]
    /\ UNCHANGED <<caps, cacheAlive, buf>>

\* writeWorld with the full re-specification passing NULL, as createBuffer does.
writeWorld_NullSource(w1, b, offset, pSource, discardWholeBuffer) ==
    IF offset = 0 /\ Len(pSource) = b.mSizeInBytes
    THEN GlBufferData(w1, b.mTarget, b.mSizeInBytes, <<>>, getGLUsage(b.mUsage))
    ELSE GlBufferSubData(
             IF discardWholeBuffer
             THEN GlBufferData(w1, b.mTarget, b.mSizeInBytes, <<>>, getGLUsage(b.mUsage))
             ELSE w1,
             b.mTarget, offset, pSource)

\* writeData after its bind: full re-specification, or sub-range upload.
writeWorld(w1, b, offset, pSource, discardWholeBuffer) ==
    IF offset = 0 /\ Len(pSource) = b.mSizeInBytes
    THEN GlBufferData(w1, b.mTarget, b.mSizeInBytes, pSource, getGLUsage(b.mUsage))
    ELSE GlBufferSubData(
             IF discardWholeBuffer
             THEN GlBufferData(w1, b.mTarget, b.mSizeInBytes, <<>>, getGLUsage(b.mUsage))
             ELSE w1,
             b.mTarget, offset, pSource)

\* GLES2HardwareBuffer::writeData
writeData(r, offset, pSource, discardWholeBuffer) ==
    /\ Running
    /\ buf[r].alive
    /\ ~buf[r].locked
    /\ offset + Len(pSource) <= buf[r].mSizeInBytes
    /\ LET b == buf[r]
           length == Len(pSource)
           w1 == bindGLBuffer(World, b.mTarget, b.mBufferId)
           w2 == writeWorld(w1, b, offset, pSource, discardWholeBuffer)
           o == [Op("writeData", r, b.mBufferId, "none", offset, length,
                    IF discardWholeBuffer THEN "discard" ELSE "keep", pSource)
                    EXCEPT !.fresh = lastOp.op = "create" /\ lastOp.res = r
                                     /\ lastOp.err = "none"]
       IN IF ~cacheAlive
          THEN /\ Commit(World)
               /\ lastOp' = [o EXCEPT !.err = "Crash"]
          ELSE /\ Commit(w2)
               /\ lastOp' = o
    /\ UNCHANGED <<caps, cacheAlive, buf>>

\* The #if OGRE_NO_GLES3_SUPPORT == 0 branch of copyData.
copyGLES3(w, b, srcBufferId, srcOffset, dstOffset, length) ==
    LET w1 == GlBindBuffer(w, b.mTarget, b.mBufferId)
        w2 == GlBufferData(w1, b.mTarget, length, <<>>, getGLUsage(b.mUsage))
        w3 == GlBindBuffer(w2, b.mTarget, 0)
        w4 == GlBindBuffer(w3, "GL_COPY_READ_BUFFER", srcBufferId)
        w5 == GlBindBuffer(w4, "GL_COPY_WRITE_BUFFER", b.mBufferId)
        w6 == GlCopyBufferSubData(w5, srcOffset, dstOffset, length)
        w7 == GlBindBuffer(w6, "GL_COPY_READ_BUFFER", 0)
    IN GlBindBuffer(w7, "GL_COPY_WRITE_BUFFER", 0)

\* copyWorld with the copy compiled in on every build.
copyWorld_NoGuard(w, b, srcBufferId, srcOffset, dstOffset, length) ==
    copyGLES3(w, b, srcBufferId, srcOffset, dstOffset, length)

\* The body of copyData: the copy on a GLES3 build, else OgreAssert(false).
copyWorld(w, b, srcBufferId, srcOffset, dstOffset, length) ==
    IF caps.gles3 THEN copyGLES3(w, b, srcBufferId, srcOffset, dstOffset, length) ELSE w

\* GLES2HardwareBuffer::copyData; s is the buffer whose name is srcBufferId.
\* The code never reads discardWholeBuffer.
copyData(r, s, srcOffset, dstOffset, length, discardWholeBuffer) ==
    /\ Running
    /\ buf[r].alive
    /\ ~buf[r].locked
    /\ buf[s].alive
    /\ ~buf[s].locked
    /\ srcOffset + length <= buf[s].mSizeInBytes
    /\ dstOffset + length <= buf[r].mSizeInBytes
    /\ LET b == buf[r]
           o == Op("copyData", r, b.mBufferId, "none", srcOffset, length, s, <<dstOffset>>)
       IN /\ Commit(copyWorld(World, b, buf[s].mBufferId, srcOffset, dstOffset, length))
          /\ lastOp' = [o EXCEPT !.err = IF caps.gles3 THEN "none" ELSE "AssertFailure"]
    /\ UNCHANGED <<caps, cacheAlive, buf>>

\* The capability tiers the code tells apart: a GLES3 build (range mapping and
\* buffer copies are core), and a GLES2 build with GL_EXT_map_buffer_range, with
\* GL_OES_mapbuffer only, or with neither (with the range extension present the
\* code never asks for the legacy one).
Tiers ==
    {[gles3 |-> TRUE, extMapRange |-> FALSE, extOes |-> FALSE],
     [gles3 |-> FALSE, extMapRange |-> TRUE, extOes |-> FALSE],
     [gles3 |-> FALSE, extMapRange |-> FALSE, extOes |-> TRUE],
     [gles3 |-> FALSE, extMapRange |-> FALSE, extOes |-> FALSE]}

InitOver(tiers) ==
    /\ caps \in tiers
    /\ cacheAlive = TRUE
    /\ activeBufferMap = [t \in Targets |-> 0]
    /\ glBound = [t \in AllTargets |-> 0]
    /\ glObj = [h \in Handles |-> NoObj]
    /\ buf = [r \in Res |-> NoBuf]
    /\ lastOp = Op("init", "A", 0, "none", 0, 0, "", <<>>)
    /\ calls = <<>>

\* The largest size in Sz.
MaxOf(Sz) == CHOOSE n \in Sz : \A m \in Sz : m <= n

\* Every call a client can make, with the buffers in R, created on the targets
\* in T with the sizes in Sz and the usages in Us, locked with the options in
\* Opts and written from the sources in Src; offsets and lengths run up to the
\* largest size, so that requests past the end of a buffer are made too.
\* Clients keep the documented discipline: a buffer is locked at most once and
\* is not read, written or copied while it is locked.
NextOver(R, T, Sz, Us, Opts, Src) ==
    \/ \E r \in R, target \in T, size \in Sz, usage \in Us, name \in {0} \cup Handles :
           createBuffer(r, target, size, usage, name)
    \/ \E r \in R : destroyBuffer(r)
    \/ \E r \in R, offset \in 0..MaxOf(Sz), length \in 1..MaxOf(Sz),
          options \in Opts, oom \in BOOLEAN :
           lockImpl(r, offset, length, options, oom)
    \/ \E r \in R, lockSize \in 1..MaxOf(Sz), corrupt \in BOOLEAN :
           unlockImpl(r, lockSize, corrupt)
    \/ \E r \in R, offset \in 0..MaxOf(Sz), length \in 1..MaxOf(Sz), oom \in BOOLEAN,
          corrupt \in BOOLEAN, ub \in {"garbage", "segfault"} :
           readData(r, offset, length, oom, corrupt, ub)
    \/ \E r \in R, offset \in 0..MaxOf(Sz), pSource \in Src, discard \in BOOLEAN :
           writeData(r, offset, pSource, discard)
    \/ \E r \in R, s \in R, srcOffset \in 0..MaxOf(Sz), dstOffset \in 0..MaxOf(Sz),
          length \in 1..MaxOf(Sz), discard \in BOOLEAN :
           copyData(r, s, srcOffset, dstOffset, length, discard)

WriteOnly == {"HBU_DYNAMIC", "HBU_WRITE_ONLY"}
Sources == SeqsUpTo(Byte, MaxSize) \ {<<>>}

\* Two buffers of one byte that may share a target: the lifecycle and the
\* binding protocol.
Next ==
    \/ TearDownCache
    \/ NextOver(Res, Targets, {1}, {WriteOnly}, {"HBL_NORMAL", "HBL_DISCARD"}, {<<0>>})

Init == InitOver(Tiers)

Spec == Init /\ [][Next]_vars

\* One buffer of every size, usage and content where ranges can be mapped: the
\* data path. The buffer is locked read-only or with discard, which between
\* them take every branch of rangeAccess.
NextData ==
    NextOver({"A"}, {"GL_ARRAY_BUFFER"}, Sizes, Usages, {"HBL_READ_ONLY", "HBL_DISCARD"},
             Sources)

InitData == InitOver({c \in Tiers : c.gles3 \/ c.extMapRange})

SpecData == InitData /\ [][NextData]_vars

\* The same buffer, locked in every mode, on the GLES2 builds where ranges
\* cannot be mapped.
NextNoRange == NextOver({"A"}, {"GL_ARRAY_BUFFER"}, Sizes, Usages, LockOptions, Sources)

InitNoRange == InitOver({c \in Tiers : ~c.gles3 /\ ~c.extMapRange})

SpecNoRange == InitNoRange /\ [][NextNoRange]_vars

\* Two buffers of the largest size on one target of a GLES3 build, filled with
\* alternating bytes, so that a byte tells its offset's parity: copies between
\* buffers.
CopySource == [i \in 1..MaxSize |-> i % 2]

NextCopy ==
    NextOver(Res, {"GL_ARRAY_BUFFER"}, {MaxSize}, {WriteOnly}, {"HBL_DISCARD"}, {CopySource})

InitCopy == InitOver({c \in Tiers : c.gles3})

SpecCopy == InitCopy /\ [][NextCopy]_vars

\* One buffer of one byte with every combination of usage bits, locked in every
\* mode on every tier: the usage hint and the unlock protocol.
AllUsages == SUBSET UsageBits

NextUsage ==
    NextOver({"A"}, {"GL_ARRAY_BUFFER"}, {1}, AllUsages, LockOptions, {<<0>>})

SpecUsage == Init /\ [][NextUsage]_vars

\* ------------------------------------------------------------------ claims
\* The calls that touch a buffer's data store or its mapping.
DataCalls == {"glBufferData", "glBufferSubData", "glMapBufferRange", "glMapBufferOES",
              "glFlushMappedBufferRange", "glUnmapBuffer"}

\* The buffers other than r that are alive.
Others(r) == {q \in Res \ {r} : buf[q].alive}

\* C1: after a destroy made while the state cache manager is available, no
\* target slot of the cache records the destroyed buffer's name; and the cache
\* never records a name whose driver object is gone (the entry is evicted no
\* later than the object is deleted).
C1_NoResidualBinding ==
    /\ (lastOp.op = "destroy" /\ cacheAlive)
           => \A t \in Targets : activeBufferMap[t] # lastOp.h
    /\ \A t \in Targets :
           activeBufferMap[t] # 0 => glObj[activeBufferMap[t]].exists

\* A destroy through the cache, of a buffer that shared its target with a
\* buffer that is still alive.
C1_Witness ==
    /\ lastOp.op = "destroy"
    /\ cacheAlive
    /\ Len(calls) > 0
    /\ calls[1].fn = "deleteGLBuffer"
    /\ \E q \in Others(lastOp.res) : buf[q].mTarget = calls[1].tgt

\* A whole-buffer writeData without discard on r, then readData of the whole
\* buffer on r, as consecutive calls.
WriteThenReadAll ==
    /\ lastOp.op = "writeData"
    /\ lastOp.err = "none"
    /\ lastOp.flag = "keep"
    /\ lastOp.offset = 0
    /\ lastOp.length = buf[lastOp.res].mSizeInBytes
    /\ lastOp'.op = "readData"
    /\ lastOp'.res = lastOp.res
    /\ lastOp'.offset = 0
    /\ lastOp'.length = lastOp.length

\* C2: where ranges can be mapped, writeData(0, N, buf, false) on a freshly
\* created buffer of size N followed by readData(0, N, out) gets its mapping
\* unless the driver is out of memory, and whenever readData gets its mapping
\* out equals buf byte for byte.
C2_RoundTrip ==
    [][WriteThenReadAll =>
          /\ (lastOp.fresh /\ ~lastOp'.oom) => lastOp'.gotMap
          /\ lastOp'.gotMap => (lastOp'.copied /\ lastOp'.out = lastOp.src)]_vars

\* A read of a whole buffer of the largest size that returned both byte values.
C2_Witness ==
    /\ lastOp.op = "readData"
    /\ lastOp.err = "none"
    /\ lastOp.gotMap
    /\ lastOp.length = MaxSize
    /\ lastOp.length = buf[lastOp.res].mSizeInBytes
    /\ \E i, j \in 1..MaxSize : lastOp.out[i] = 0 /\ lastOp.out[j] = 1

\* C3: every data-store or mapping call that lock, unlock, readData or writeData
\* on a buffer issues acts on the storage of that buffer's own name.
C3_OwnStorage ==
    lastOp.op \in {"lock", "unlock", "readData", "writeData"}
        => \A i \in 1..Len(calls) :
               calls[i].fn \in DataCalls => calls[i].h = lastOp.h

\* C4: a lock with offset + length > sizeInBytes issues no Binding Cache bind and
\* no driver call, and is rejected.
C4_LockRangeChecked ==
    (/\ lastOp.op = "lock"
     /\ buf[lastOp.res].alive
     /\ lastOp.offset + lastOp.length > buf[lastOp.res].mSizeInBytes)
        => (calls = <<>> /\ lastOp.err # "none" /\ ~lastOp.gotMap)

\* C5: while a buffer's lock is outstanding its mapping is open: no call of
\* this layer on this or on another buffer closes it before the unlock.
C5_MappingOutlivesLock ==
    \A r \in Res :
        (Running /\ buf[r].alive /\ buf[r].locked) => glObj[buf[r].mBufferId].mapped

\* Neither GL_EXT_map_buffer_range nor GL_OES_mapbuffer, on a GLES2 build.
NoMappingTier == ~caps.gles3 /\ ~caps.extMapRange /\ ~caps.extOes

\* C6: with no mapping capability a lock fails with MappingError whatever its
\* arguments and leaves every buffer object and every driver data store as it
\* was; a writeData that follows on the same buffer stores its source at
\* [offset, offset+length).
C6_LockFailsIntact ==
    [][(NoMappingTier /\ cacheAlive) =>
          /\ lastOp'.op = "lock" =>
                 /\ lastOp'.err = "MappingError"
                 /\ glObj' = glObj
                 /\ buf' = buf
          /\ (/\ lastOp.op = "lock"
              /\ lastOp'.op = "writeData"
              /\ lastOp'.res = lastOp.res) =>
                 /\ lastOp'.err = "none"
                 /\ Slice(glObj'[lastOp'.h].data, lastOp'.offset, lastOp'.length)
                        = lastOp'.src]_vars

\* A failed discard lock, with no mapping capability, on a buffer of the
\* largest size whose stored bytes are still the ones written.
C6_Witness ==
    /\ NoMappingTier
    /\ lastOp.op = "lock"
    /\ lastOp.flag = "HBL_DISCARD"
    /\ lastOp.err = "MappingError"
    /\ Len(glObj[lastOp.h].data) = MaxSize
    /\ \A i \in 1..MaxSize : glObj[lastOp.h].data[i] \in Byte

\* C7: without the range-mapping capability readData raises
\* UnsupportedOperationError having issued no call: bindings, cache, data stores
\* and the destination are as before.
C7_ReadUnsupported ==
    [][(~caps.gles3 /\ ~caps.extMapRange /\ lastOp'.op = "readData") =>
          /\ lastOp'.err = "UnsupportedOperationError"
          /\ calls' = <<>>
          /\ ~lastOp'.copied
          /\ glBound' = glBound
          /\ glObj' = glObj
          /\ activeBufferMap' = activeBufferMap]_vars

\* A readData refused on a GLES2 build that has GL_OES_mapbuffer only.
C7_Witness ==
    /\ ~caps.gles3
    /\ ~caps.extMapRange
    /\ caps.extOes
    /\ lastOp.op = "readData"
    /\ lastOp.err = "UnsupportedOperationError"

\* C8: when readData's range mapping fails nothing is copied into the
\* destination and the failure is a MappingError.
C8_NoCopyOnFailedMap ==
    (lastOp.op = "readData" /\ hasMapBufferRange /\ ~lastOp.gotMap)
        => (~lastOp.copied /\ lastOp.err = "MappingError")

\* C9: without the buffer-copy capability copyData ends in a precondition
\* failure having issued no call: driver bindings (the buffer's target and both
\* copy binding points), cache and data stores are as before.
C9_CopyUnsupported ==
    [][(~caps.gles3 /\ lastOp'.op = "copyData") =>
          /\ lastOp'.err = "AssertFailure"
          /\ calls' = <<>>
          /\ glBound' = glBound
          /\ glObj' = glObj
          /\ activeBufferMap' = activeBufferMap]_vars

\* A copyData between two buffers refused on a GLES2 build.
C9_Witness ==
    /\ ~caps.gles3
    /\ lastOp.op = "copyData"
    /\ lastOp.err = "AssertFailure"
    /\ lastOp.flag # lastOp.res

\* C10: destroy releases the driver object of the buffer's name whether or not
\* the state cache manager is still there, so every driver object belongs to a
\* buffer that is alive.
C10_DestroyReleases ==
    /\ lastOp.op = "destroy" => ~glObj[lastOp.h].exists
    /\ Running =>
           \A h \in Handles :
               glObj[h].exists => \E r \in Res : buf[r].alive /\ buf[r].mBufferId = h

\* C11: between create and destroy, whatever lock, unlock, readData, writeData
\* and copyData calls are made, the data store behind a buffer's name has the
\* size the buffer was created with.
C11_CapacityImmutable ==
    \A r \in Res :
        (Running /\ buf[r].alive)
            => Len(glObj[buf[r].mBufferId].data) = buf[r].mSizeInBytes

\* The positions in cs of the calls of fn.
CallsOf(cs, fn) == {i \in 1..Len(cs) : cs[i].fn = fn}

\* C12: with the state cache manager available, a create for which the driver
\* returns name 0 raises AllocationError having issued no bind and no
\* glBufferData and constructs no buffer; any other create succeeds with a
\* non-zero name, binds that name to the buffer's target through the cache and
\* only then reserves sizeInBytes of storage for it. The name of a constructed
\* buffer is non-zero and stays the same until the buffer is destroyed.
C12_CreateOutcome ==
    [][/\ (cacheAlive /\ lastOp'.op = "create") =>
              LET r == lastOp'.res
                  h == lastOp'.h
                  binds == CallsOf(calls', "bindGLBuffer")
                  stores == CallsOf(calls', "glBufferData")
              IN IF h = 0
                 THEN /\ lastOp'.err = "AllocationError"
                      /\ binds = {}
                      /\ stores = {}
                      /\ CallsOf(calls', "glBindBuffer") = {}
                      /\ buf' = buf
                      /\ glObj' = glObj
                      /\ glBound' = glBound
                      /\ activeBufferMap' = activeBufferMap
                 ELSE /\ lastOp'.err = "none"
                      /\ buf'[r].alive
                      /\ buf'[r].mBufferId = h
                      /\ Cardinality(binds) = 1
                      /\ Cardinality(stores) = 1
                      /\ \A i \in binds, j \in stores :
                             /\ i < j
                             /\ calls'[i].tgt = buf'[r].mTarget
                             /\ calls'[i].h = h
                             /\ calls'[j].tgt = buf'[r].mTarget
                             /\ calls'[j].h = h
                             /\ calls'[j].n = buf'[r].mSizeInBytes
                      /\ activeBufferMap'[buf'[r].mTarget] = h
                      /\ Len(glObj'[h].data) = buf'[r].mSizeInBytes
       /\ \A r \in Res :
              /\ buf'[r].alive => buf'[r].mBufferId # 0
              /\ (buf[r].alive /\ buf'[r].alive) => buf'[r].mBufferId = buf[r].mBufferId]_vars

\* A successful create on a target where the cache recorded another live
\* buffer, so that the bind through the cache had to rebind the driver.
C12_Witness ==
    /\ lastOp.op = "create"
    /\ lastOp.err = "none"
    /\ CallsOf(calls, "glBindBuffer") # {}
    /\ \E q \in Others(lastOp.res) : buf[q].mTarget = buf[lastOp.res].mTarget

\* C13: an unlock flushes, once and with length lockSize, exactly when the
\* usage has the write-only bit and ranges can be mapped, which is exactly when
\* the lock before it asked glMapBufferRange for explicit flushing; the flush
\* comes before the unmap; the unmap is issued exactly when ranges can be mapped
\* or GL_OES_mapbuffer is present; and the unlock raises CorruptionError unless
\* the unmap found the buffer mapped and left its contents as they were.
C13_UnlockProtocol ==
    [][(cacheAlive /\ lastOp'.op = "unlock") =>
          LET r == lastOp'.res
              b == buf[r]
              h == b.mBufferId
              flushes == CallsOf(calls', "glFlushMappedBufferRange")
              unmaps == CallsOf(calls', "glUnmapBuffer")
              ranged == caps.gles3 \/ caps.extMapRange
          IN /\ (flushes # {}) <=> ("HBU_WRITE_ONLY" \in b.mUsage /\ ranged)
             /\ (lastOp.op = "lock" /\ lastOp.res = r) =>
                    ((flushes # {}) <=>
                        \E i \in CallsOf(calls, "glMapBufferRange") :
                            "FLUSH_EXPLICIT" \in calls[i].acc)
             /\ Cardinality(flushes) <= 1
             /\ \A i \in flushes :
                    /\ calls'[i].n = lastOp'.length
                    /\ calls'[i].tgt = b.mTarget
                    /\ calls'[i].h = h
             /\ (unmaps # {}) <=> (ranged \/ caps.extOes)
             /\ \A i \in flushes, j \in unmaps : i < j
             /\ lastOp'.err \in {"none", "CorruptionError"}
             /\ lastOp'.err = "CorruptionError" => unmaps # {}
             /\ (unmaps # {} /\ lastOp'.err = "none") =>
                    /\ glObj[h].mapped
                    /\ ~glObj'[h].mapped
                    /\ glObj'[h].data = glObj[h].data]_vars

\* An unlock that flushed and then unmapped a buffer whose usage has the
\* write-only bit along with others, without an error.
C13_Witness ==
    /\ lastOp.op = "unlock"
    /\ lastOp.err = "none"
    /\ CallsOf(calls, "glFlushMappedBufferRange") # {}
    /\ CallsOf(calls, "glUnmapBuffer") # {}
    /\ Cardinality(buf[lastOp.res].mUsage) > 1

\* C14: while the state cache manager is there, the buffer it records as bound
\* to a target is the buffer the driver has bound to that target.
C14_CacheMatchesDriver ==
    (Running /\ cacheAlive) => \A t \in Targets : activeBufferMap[t] = glBound[t]

\* C15: on a GLES3 build a copyData from another buffer, with both ranges
\* inside their buffers, leaves bytes [dstOffset, dstOffset+length) of the
\* destination equal to bytes [srcOffset, srcOffset+length) the source had, for
\* dstOffset = 0 and for dstOffset > 0, and leaves GL_COPY_READ_BUFFER and
\* GL_COPY_WRITE_BUFFER unbound.
C15_CopyRange ==
    [][(caps.gles3 /\ lastOp'.op = "copyData" /\ lastOp'.flag # lastOp'.res) =>
          LET d == glObj'[lastOp'.h].data
              src == glObj[buf[lastOp'.flag].mBufferId].data
              srcOffset == lastOp'.offset
              dstOffset == lastOp'.src[1]
              length == lastOp'.length
          IN /\ srcOffset + length <= Len(src)
             /\ dstOffset + length <= Len(d)
             /\ Slice(d, dstOffset, length) = Slice(src, srcOffset, length)
             /\ \A t \in CopyTargets : glBound'[t] = 0]_vars

\* C16: where ranges can be mapped, a lock with HBL_READ_ONLY asks
\* glMapBufferRange for read access and nothing else, whatever the usage of the
\* buffer.
C16_ReadOnlyLockReadsOnly ==
    (/\ lastOp.op = "lock"
     /\ lastOp.err # "Crash"
     /\ lastOp.flag = "HBL_READ_ONLY"
     /\ (caps.gles3 \/ caps.extMapRange))
        => /\ CallsOf(calls, "glMapBufferRange") # {}
           /\ \A i \in CallsOf(calls, "glMapBufferRange") : calls[i].acc = {"READ"}

\* A GLES2 build with GL_OES_mapbuffer and without GL_EXT_map_buffer_range.
LegacyTier == ~caps.gles3 /\ ~caps.extMapRange /\ caps.extOes

\* C17: on the glMapBufferOES path a lock re-specifies the buffer's data store
\* before mapping exactly when its mode is HBL_DISCARD; in every other mode,
\* HBL_NO_OVERWRITE included, the contents of the data store are as before.
C17_LegacyDiscardOnly ==
    [][(LegacyTier /\ cacheAlive /\ lastOp'.op = "lock") =>
          /\ (CallsOf(calls', "glBufferData") # {}) <=> (lastOp'.flag = "HBL_DISCARD")
          /\ lastOp'.flag # "HBL_DISCARD" =>
                 glObj'[lastOp'.h].data = glObj[lastOp'.h].data]_vars

\* C18: a lock that fails with MappingError because the driver returned no
\* mapping leaves the contents of every data store as they were before the call.
C18_FailedLockKeepsContents ==
    [][(lastOp'.op = "lock" /\ lastOp'.err = "MappingError") =>
          \A h \in Handles : glObj'[h].data = glObj[h].data]_vars

\* C19: after a writeData whose range lies inside the buffer, bytes
\* [offset, offset+length) of the buffer's data store equal the source, whether
\* the write spanned the whole buffer or a part of it and whatever the discard
\* flag.
C19_WriteStoresSource ==
    (lastOp.op = "writeData" /\ lastOp.err # "Crash") =>
        LET d == glObj[lastOp.h].data
        IN /\ lastOp.offset + lastOp.length <= Len(d)
           /\ Slice(d, lastOp.offset, lastOp.length) = lastOp.src

\* The hint the priority table gives a usage: the first row that matches.
HintTable ==
    <<[bit |-> "HBU_DISCARDABLE", hint |-> "GL_STREAM_DRAW"],
      [bit |-> "HBU_STATIC", hint |-> "GL_STATIC_DRAW"]>>

FirstMatch(usage) ==
    LET rows == {i \in 1..Len(HintTable) : HintTable[i].bit \in usage}
    IN IF rows = {} THEN "GL_DYNAMIC_DRAW"
       ELSE HintTable[CHOOSE i \in rows : \A j \in rows : i <= j].hint

\* C20: for every combination of usage bits, every glBufferData that create,
\* lock, writeData and copyData issue for a buffer carries the hint of the
\* first matching row of the table: stream-draw if the usage has the
\* discardable bit (with or without the static bit), else static-draw if it
\* has the static bit, else dynamic-draw.
C20_UsageHint ==
    (lastOp.op \in {"create", "lock", "writeData", "copyData"} /\ buf[lastOp.res].alive)
        => \A i \in CallsOf(calls, "glBufferData") :
               calls[i].acc = {FirstMatch(buf[lastOp.res].mUsage)}

\* A discarding lock on the glMapBufferOES path of a buffer whose usage has
\* both the static and the discardable bit, re-specified with stream-draw.
C20_Witness ==
    /\ lastOp.op = "lock"
    /\ {"HBU_STATIC", "HBU_DISCARDABLE"} \subseteq buf[lastOp.res].mUsage
    /\ \E i \in CallsOf(calls, "glBufferData") : calls[i].acc = {"GL_STREAM_DRAW"}

====
